---- MODULE Spec2Model ----
(***************************************************************************)
(* The two scrapers of firecrawl-simple, scrapeWithFetch and               *)
(* scrapeWithPlaywright, and the PDF classifier isPDFContent they share.   *)
(*                                                                         *)
(* JavaScript values are tagged records.  A JavaScript string is a         *)
(* sequence of pieces of text: bodies are spelled one character a piece,   *)
(* fixed messages and JSON punctuation are one piece each.                 *)
(***************************************************************************)
EXTENDS Integers, Sequences, FiniteSets, TLC

VARIABLES
  loggingLevel, \* process.env.LOGGING_LEVEL
  pc,           \* where the call is: idle, awaitParams, awaitResponse, done
  logParams,    \* the call's log record
  waitFor,      \* scrapeWithPlaywright's argument
  headers,      \* scrapeWithPlaywright's argument
  provided,     \* what generateRequestParams settled with
  request,      \* the request handed to axios
  wire,         \* what the origin or the microservice put on the wire
  result,       \* the value the call returned
  terminal,     \* the exit path the call took
  sink,         \* what reached winstonLogger.log
  ticks,        \* how often the clock advanced
  now,          \* Date.now()
  pdfChunks,    \* the chunks the classifier's input is built from
  pdfContent,   \* the classifier's input
  pdfVerdict,   \* what isPDFContent returned
  pdfDone       \* isPDFContent has returned

scrapeVars == <<loggingLevel, pc, logParams, waitFor, headers, provided,
                request, wire, result, terminal, sink, ticks, now>>
pdfVars == <<pdfChunks, pdfContent, pdfVerdict, pdfDone>>
vars == <<loggingLevel, pc, logParams, waitFor, headers, provided, request,
          wire, result, terminal, sink, ticks, now, pdfChunks, pdfContent,
          pdfVerdict, pdfDone>>

---------------------------------------------------------------------------
(* Bounds of the model. *)

\* The clock advances at most this many times during one call.
MaxTicks == 2
\* A classifier input is the concatenation of at most this many chunks.
MaxChunks == 4
\* The logger on its own is called at most this many times.
MaxLogCalls == 2

---------------------------------------------------------------------------
(* JavaScript values. *)

undefined == [t |-> "undefined"]
null == [t |-> "null"]
Num(n) == [t |-> "number", n |-> n]
\* A number that is no integer: num / den in lowest terms, den > 1.
Frac(num, den) == [t |-> "number", num |-> num, den |-> den]

RECURSIVE GCD(_, _)
GCD(a, b) == IF b = 0 THEN a ELSE GCD(b, a % b)

\* a / b for integers a >= 0 and b > 0.
Divide(a, b) ==
  IF a % b = 0 THEN Num(a \div b)
  ELSE Frac(a \div GCD(a, b), b \div GCD(a, b))
Str(s) == [t |-> "string", s |-> s]
Obj(f) == [t |-> "object", f |-> f]
\* An Error object: code and message are JavaScript values.
Err(code, message) == [t |-> "error", code |-> code, message |-> message]

\* v is null or undefined.
Nullish(v) == v.t \in {"undefined", "null"}

\* ToBoolean(v).
Truthy(v) ==
  CASE v.t \in {"undefined", "null"} -> FALSE
    [] v.t = "string" -> v.s # <<>>
    [] v.t = "number" -> IF "n" \in DOMAIN v THEN v.n # 0 ELSE TRUE
    [] OTHER -> TRUE

\* a || b
Or(a, b) == IF Truthy(a) THEN a ELSE b

\* a ?? b
Coalesce(a, b) == IF Nullish(a) THEN b ELSE a

\* v[k] for a v that is neither null nor undefined: a property of an object or
\* of an Error, and undefined on a string or a number.
Get(v, k) ==
  CASE v.t = "object" -> IF k \in DOMAIN v.f THEN v.f[k] ELSE undefined
    [] v.t = "error" /\ k = <<"code">> -> v.code
    [] v.t = "error" /\ k = <<"message">> -> v.message
    [] OTHER -> undefined

\* v?.[k]
OptGet(v, k) == IF Nullish(v) THEN undefined ELSE Get(v, k)

\* The value is present: neither null nor undefined.
Present(v) == ~Nullish(v)

---------------------------------------------------------------------------
(* Strings. *)

\* Characters String.prototype.trim removes.  ^K stands for U+000B, which is
\* white space and also in the classifier's control-character class.
WhiteSpace == {" ", "\n", "^K"}
\* Characters of the class [\x00-\x08\x0B\x0C\x0E-\x1F\x7F-\x9F]; ^A stands for
\* U+0001.
NonPrintable == {"^A", "^K"}

\* s.trim()
trim(s) ==
  LET keep == {i \in 1..Len(s) : s[i] \notin WhiteSpace}
  IN IF keep = {} THEN <<>>
     ELSE LET first == CHOOSE i \in keep : \A j \in keep : i <= j
              last == CHOOSE i \in keep : \A j \in keep : j <= i
          IN SubSeq(s, first, last)

\* s.startsWith(p)
startsWith(s, p) == Len(s) >= Len(p) /\ SubSeq(s, 1, Len(p)) = p

\* s.includes(p)
includes(s, p) ==
  \E i \in 1..(Len(s) - Len(p) + 1) : SubSeq(s, i, i + Len(p) - 1) = p

\* (s.match(/[control characters]/g) || []).length
nonPrintableCount(s) == Cardinality({i \in 1..Len(s) : s[i] \in NonPrintable})

PDFSignature == <<"%", "P", "D", "F", "-">>
MarkerObj == <<"o", "b", "j">>
MarkerEndobj == <<"e", "n", "d", "o", "b", "j">>
MarkerStream == <<"s", "t", "r", "e", "a", "m">>
MarkerEndstream == <<"e", "n", "d", "s", "t", "r", "e", "a", "m">>

---------------------------------------------------------------------------
(* isPDFContent *)

\* The header rule: the trimmed content starts with %PDF-.
SignatureRule(content) == startsWith(trim(content.s), PDFSignature)

\* The marker rule: the trimmed content includes the four markers.
MarkerRule(content) ==
  LET trimmedContent == trim(content.s)
  IN /\ includes(trimmedContent, MarkerObj)
     /\ includes(trimmedContent, MarkerEndobj)
     /\ includes(trimmedContent, MarkerStream)
     /\ includes(trimmedContent, MarkerEndstream)

\* The ratio rule: more than 100 characters, more than a tenth of them control
\* characters (nonPrintableChars / totalChars > 0.1).
RatioRule(content) ==
  LET nonPrintableChars == nonPrintableCount(content.s)
      totalChars == Len(content.s)
  IN totalChars > 100 /\ 10 * nonPrintableChars > totalChars

isPDFContent(content) ==
  IF ~Truthy(content) \/ content.t # "string" THEN FALSE
  ELSE IF SignatureRule(content) THEN TRUE
  ELSE IF MarkerRule(content) THEN TRUE
  ELSE IF RatioRule(content) THEN TRUE
  ELSE FALSE

---------------------------------------------------------------------------
(* Inputs of the classifier: concatenations of chunks. *)

RECURSIVE Repeat(_, _)
Repeat(c, n) == IF n = 0 THEN <<>> ELSE <<c>> \o Repeat(c, n - 1)

\* The names of the chunks an input is built from.  The four marker chunks are
\* the PDF structural markers, each written out once.
MarkerChunks == {"obj", "endobj", "stream", "endstream"}
ChunkNames == MarkerChunks \cup {"%PDF-", "space", "text50", "ctrl40"}

\* The characters of a chunk.
ChunkText(c) ==
  CASE c = "obj" -> MarkerObj
    [] c = "endobj" -> MarkerEndobj
    [] c = "stream" -> MarkerStream
    [] c = "endstream" -> MarkerEndstream
    [] c = "%PDF-" -> PDFSignature
    [] c = "space" -> <<" ">>
    [] c = "text50" -> Repeat("a", 50)
    [] c = "ctrl40" -> Repeat("^A", 40)

RECURSIVE Flatten(_)
Flatten(chunks) ==
  IF chunks = <<>> THEN <<>>
  ELSE ChunkText(Head(chunks)) \o Flatten(Tail(chunks))

ChunkSeqs == UNION {[1..n -> ChunkNames] : n \in 0..MaxChunks}

---------------------------------------------------------------------------
(* JSON.parse, on texts whose punctuation, keys and number or null literals *)
(* are one piece each and whose string contents are spelled out.            *)

\* The number literals the texts use, and the numbers they denote.
NumberLiteral == ("200" :> 200) @@ ("404" :> 404) @@ ("500" :> 500) @@ ("201" :> 201)

\* String(n) for those numbers.
NumberPiece(n) == CHOOSE p \in DOMAIN NumberLiteral : NumberLiteral[p] = n

ParseFail == [ok |-> FALSE, value |-> undefined, next |-> 0]

\* The position of the quote that closes the string literal opened at i, or 0.
ClosingQuote(txt, i) ==
  LET quotes == {j \in (i + 1)..Len(txt) : txt[j] = "\""}
  IN IF quotes = {} THEN 0 ELSE CHOOSE j \in quotes : \A k \in quotes : j <= k

\* A null, number or string literal at position i of txt.  A raw control
\* character inside a string literal is a syntax error.
ParseLiteral(txt, i) ==
  IF i > Len(txt) THEN ParseFail
  ELSE IF txt[i] = "null" THEN [ok |-> TRUE, value |-> null, next |-> i + 1]
  ELSE IF txt[i] \in DOMAIN NumberLiteral
    THEN [ok |-> TRUE, value |-> Num(NumberLiteral[txt[i]]), next |-> i + 1]
  ELSE IF txt[i] = "\""
    THEN LET j == ClosingQuote(txt, i)
         IN IF j = 0 \/ \E k \in (i + 1)..(j - 1) : txt[k] \in NonPrintable \cup {"\n"}
            THEN ParseFail
            ELSE [ok |-> TRUE, value |-> Str(SubSeq(txt, i + 1, j - 1)), next |-> j + 1]
  ELSE ParseFail

\* The members of an object from position i on, up to its closing brace; a
\* later member of the same name replaces an earlier one.
RECURSIVE ParseMembers(_, _, _)
ParseMembers(txt, i, acc) ==
  LET k == ParseLiteral(txt, i)
  IN IF ~k.ok \/ k.value.t # "string" THEN ParseFail
     ELSE IF k.next > Len(txt) \/ txt[k.next] # ":" THEN ParseFail
     ELSE LET v == ParseLiteral(txt, k.next + 1)
          IN IF ~v.ok \/ v.next > Len(txt) THEN ParseFail
             ELSE LET acc2 == [x \in DOMAIN acc \cup {k.value.s} |->
                                 IF x = k.value.s THEN v.value ELSE acc[x]]
                  IN IF txt[v.next] = "," THEN ParseMembers(txt, v.next + 1, acc2)
                     ELSE IF txt[v.next] = "}"
                       THEN [ok |-> TRUE, value |-> Obj(acc2), next |-> v.next + 1]
                     ELSE ParseFail

ParseValue(txt, i) ==
  IF i <= Len(txt) /\ txt[i] = "{"
  THEN IF i + 1 <= Len(txt) /\ txt[i + 1] = "}"
       THEN [ok |-> TRUE, value |-> Obj(<<>>), next |-> i + 2]
       ELSE ParseMembers(txt, i + 1, <<>>)
  ELSE ParseLiteral(txt, i)

SyntaxError == Err(undefined, Str(<<"Unexpected token in JSON">>))

\* JSON.parse(text): the value, or the SyntaxError it throws.
JSONparse(text) ==
  LET r == ParseValue(text.s, 1)
  IN IF r.ok /\ r.next = Len(text.s) + 1
     THEN [ok |-> TRUE, value |-> r.value, error |-> undefined]
     ELSE [ok |-> FALSE, value |-> undefined, error |-> SyntaxError]

\* The TypeError of reading a property of null or undefined.
TypeError(k) == Err(undefined, Str(<<"Cannot read properties of null or undefined: ">> \o k))

---------------------------------------------------------------------------
(* What the origin and the microservice send. *)

Html == <<"<", "h", "t", "m", "l", ">", "h", "i", "<", "/", "h", "t", "m", "l", ">">>
PdfBody == <<" ">> \o PDFSignature \o <<"1", ".", "4">>
MarkersBody == Flatten(<<"endobj", "space", "endstream">>)
BinaryBody == Flatten(<<"text50", "text50", "ctrl40">>)

\* Bodies an origin answers a GET with.
OriginBodies == {<<>>, Html, PdfBody, MarkersBody, BinaryBody}

\* The statuses an origin or the microservice answers with, and their reason
\* phrases.
Statuses == {200, 201, 404, 500}
ReasonPhrase(status) ==
  CASE status = 200 -> <<"OK">>
    [] status = 201 -> <<"Created">>
    [] status = 404 -> <<"Not Found">>
    [] status = 500 -> <<"Internal Server Error">>

\* The literal of a value in a JSON text.
Literal(v) ==
  CASE v.t = "null" -> <<"null">>
    [] v.t = "number" -> <<NumberPiece(v.n)>>
    [] v.t = "string" -> <<"\"">> \o v.s \o <<"\"">>

RECURSIVE JoinMembers(_)
JoinMembers(ms) ==
  IF ms = <<>> THEN <<>>
  ELSE <<"\"", ms[1][1], "\"", ":">> \o Literal(ms[1][2])
       \o (IF Len(ms) > 1 THEN <<",">> ELSE <<>>) \o JoinMembers(Tail(ms))

\* The envelope the microservice serialises; a field that is undefined is left
\* out, as JSON.stringify does.
Envelope(c, s, e) ==
  LET ms == SelectSeq(<< <<"content", c>>, <<"pageStatusCode", s>>, <<"pageError", e>> >>,
                      LAMBDA m : m[2] # undefined)
  IN <<"{">> \o JoinMembers(ms) \o <<"}">>

EnvelopeContents == {undefined, null, Str(<<>>), Str(Html), Str(PdfBody), Str(MarkersBody)}
EnvelopeStatuses == {undefined, Num(200), Num(404)}
EnvelopeErrors == {undefined, null, Str(<<"Not Found">>)}

NoEnvelope == [content |-> undefined, pageStatusCode |-> undefined, pageError |-> undefined]

\* What the microservice may answer with: the text, and the envelope's fields
\* when the text is an envelope.
MicroserviceBodies ==
  {[isEnvelope |-> TRUE, text |-> Envelope(c, s, e),
    fields |-> [content |-> c, pageStatusCode |-> s, pageError |-> e]] :
      c \in EnvelopeContents, s \in EnvelopeStatuses, e \in EnvelopeErrors}
  \cup
  {[isEnvelope |-> FALSE, text |-> t, fields |-> NoEnvelope] :
      t \in {<<>>, Html, <<"null">>, <<"404">>, <<"{", "\"", "content", "\"", ":">>}}

\* Errors a transport fails with: a timeout, a failed lookup, and an error
\* that carries no message.
TransportErrors ==
  {Err(Str(<<"ECONNABORTED">>), Str(<<"timeout exceeded">>)),
   Err(Str(<<"ENOTFOUND">>), Str(<<"getaddrinfo ENOTFOUND">>)),
   Err(Str(<<"ECONNRESET">>), Str(<<>>))}

\* An object with the one property k.
Obj1(k, v) == Obj([x \in {k} |-> v])

\* What generateRequestParams may settle with.
ProviderResults ==
  {Obj(<<>>),
   Obj1(<<"params">>, Obj(<<>>)),
   Obj1(<<"params">>, Obj1(<<"wait">>, null)),
   Obj1(<<"params">>, Obj1(<<"wait">>, Num(0))),
   Obj1(<<"params">>, Obj1(<<"wait">>, Num(3000)))}
ProviderErrors == {Err(undefined, Str(<<"provider failed">>)), Err(undefined, Str(<<>>))}

WaitForValues == {0, 2000}
HeaderValues == {undefined, Obj1(<<"User-Agent">>, Str(<<"bot">>))}
\* Values of LOGGING_LEVEL: not set, a level above and below debug, a name
\* that is no level and a name inherited from Object.prototype.
LoggingLevels == {"unset", "DEBUG", "constructor"}

---------------------------------------------------------------------------
(* Logger *)

\* The keys of the enum LogLevel; each key's value is its own name.
LogLevelKeys == {"NONE", "ERROR", "WARN", "INFO", "DEBUG", "TRACE"}

\* The methods every object inherits from Object.prototype.
InheritedMethods == {"constructor", "toString", "valueOf", "hasOwnProperty",
                     "isPrototypeOf", "propertyIsEnumerable", "toLocaleString",
                     "__defineGetter__", "__defineSetter__",
                     "__lookupGetter__", "__lookupSetter__"}

\* The names every object inherits from Object.prototype: its methods and the
\* accessor __proto__.
InheritedNames == InheritedMethods \cup {"__proto__"}

\* A function object, such as an inherited method.
Function == [t |-> "function"]

\* Object.prototype, the value of the accessor __proto__ on a plain object.
ObjectPrototype == [t |-> "prototype"]

\* LogLevel[key], a property lookup on the enum object: the level of an own
\* key, the inherited method or Object.prototype for a name inherited from
\* Object.prototype, and undefined otherwise (also when the variable is
\* unset).
LogLevel(key) ==
  IF key \in LogLevelKeys THEN Str(<<key>>)
  ELSE IF key \in InheritedMethods THEN Function
  ELSE IF key = "__proto__" THEN ObjectPrototype
  ELSE undefined

levels == <<LogLevel("NONE"), LogLevel("ERROR"), LogLevel("WARN"),
            LogLevel("INFO"), LogLevel("DEBUG"), LogLevel("TRACE")>>

\* levels.indexOf(level)
indexOf(level) ==
  IF \E i \in DOMAIN levels : levels[i] = level
  THEN (CHOOSE i \in DOMAIN levels : levels[i] = level) - 1
  ELSE -1

\* Words and their lower-case forms.
LowerCase == ("NONE" :> "none") @@ ("ERROR" :> "error") @@ ("WARN" :> "warn")
             @@ ("INFO" :> "info") @@ ("DEBUG" :> "debug") @@ ("TRACE" :> "trace")

\* level.toLowerCase(), for a level of one word.
toLowerCase(level) == LowerCase[level.s[1]]

\* { ...a, ...b }: the properties of b over those of a; a value that is no
\* object spreads nothing.
Spread(a, b) ==
  LET fa == IF a.t = "object" THEN a.f ELSE <<>>
      fb == IF b.t = "object" THEN b.f ELSE <<>>
  IN Obj([k \in DOMAIN fa \cup DOMAIN fb |->
            IF k \in DOMAIN fb THEN fb[k] ELSE fa[k]])

\* Logger.log(message, level, metadata): the sink after the call.  env is
\* process.env.LOGGING_LEVEL; metadata is undefined when it is not passed.
Logger_log(snk, env, message, level, metadata) ==
  LET logLevel == Or(LogLevel(env), LogLevel("INFO"))
      currentLevelIndex == indexOf(logLevel)
      messageLevelIndex == indexOf(level)
  IN IF currentLevelIndex >= messageLevelIndex
     THEN Append(snk, [level |-> toLowerCase(level), message |-> message,
                       metadata |-> Or(metadata, Obj(<<>>))])
     ELSE snk

\* Logger.error(message, metadata)
Logger_error(snk, env, message, metadata) ==
  Logger_log(snk, env, message, LogLevel("ERROR"), metadata)

\* Logger.warn(message, metadata)
Logger_warn(snk, env, message, metadata) ==
  Logger_log(snk, env, message, LogLevel("WARN"), metadata)

\* Logger.info(message, metadata)
Logger_info(snk, env, message, metadata) ==
  Logger_log(snk, env, message, LogLevel("INFO"), metadata)

\* Logger.debug(message, metadata)
Logger_debug(snk, env, message, metadata) ==
  Logger_log(snk, env, message, LogLevel("DEBUG"), metadata)

\* Logger.trace(message, metadata)
Logger_trace(snk, env, message, metadata) ==
  Logger_log(snk, env, message, LogLevel("TRACE"), metadata)

LoggerMethods == {"error", "warn", "info", "debug", "trace"}

\* Logger[method](message, metadata)
Logger_call(snk, env, method, message, metadata) ==
  CASE method = "error" -> Logger_error(snk, env, message, metadata)
    [] method = "warn" -> Logger_warn(snk, env, message, metadata)
    [] method = "info" -> Logger_info(snk, env, message, metadata)
    [] method = "debug" -> Logger_debug(snk, env, message, metadata)
    [] method = "trace" -> Logger_trace(snk, env, message, metadata)

\* Logger.child(context)[method](message, metadata)
Logger_child(snk, env, context, method, message, metadata) ==
  Logger_call(snk, env, method, message, Spread(context, metadata))

---------------------------------------------------------------------------
(* The scrapers. *)

URL == <<"https://example.com/page">>

\* The base timeout of every request, in milliseconds.
universalTimeout == 15000

PDFMessage == <<"PDF content detected - not suitable for text extraction">>

\* The log record at the start of a call.
NewLogParams(scraper, startTime) ==
  [url |-> Str(URL), scraper |-> scraper, success |-> FALSE,
   response_code |-> null, time_taken_seconds |-> null,
   error_message |-> null, html |-> Str(<<>>), startTime |-> startTime]

\* reqParams["params"]?.wait || waitFor: a wait of 0 is lost.
EffectiveWaitWithOr(reqParams, waitForArg) ==
  Or(OptGet(Get(reqParams, <<"params">>), <<"wait">>), waitForArg)
\* reqParams["params"]?.wait ?? waitFor
EffectiveWait(reqParams, waitForArg) ==
  Coalesce(OptGet(Get(reqParams, <<"params">>), <<"wait">>), waitForArg)

\* The POST handed to axios.
PostRequest(waitParam, hdrs) ==
  [method |-> "POST",
   data |-> [url |-> Str(URL), wait_after_load |-> waitParam, headers |-> hdrs],
   timeout |-> universalTimeout + waitParam.n]

\* The GET handed to axios.
GetRequest ==
  [method |-> "GET",
   data |-> [url |-> Str(URL), wait_after_load |-> undefined, headers |-> undefined],
   timeout |-> universalTimeout]

\* axios's default validateStatus, which neither call overrides.
validateStatus(status) == status >= 200 /\ status < 300

\* How axios settles a request the server answered: it resolves with the
\* response, the body kept as text (transformResponse is the identity), or
\* rejects with an AxiosError when validateStatus refuses the status.
AxiosSettle(status, statusText, body) ==
  IF validateStatus(status)
  THEN [resolved |-> TRUE,
        response |-> [status |-> Num(status), statusText |-> Str(statusText),
                      data |-> Str(body)],
        error |-> undefined]
  ELSE [resolved |-> FALSE,
        response |-> undefined,
        error |-> Err(Str(<<IF status < 500 THEN "ERR_BAD_REQUEST" ELSE "ERR_BAD_RESPONSE">>),
                      Str(<<"Request failed with status code ", NumberPiece(status)>>))]

\* The catch block of either scraper; who is the prefix of its debug lines.
Caught(lp, error, who) ==
  LET timedOut == Get(error, <<"code">>) = Str(<<"ECONNABORTED">>)
      error_message == IF timedOut THEN Str(<<"Request timed out">>)
                       ELSE Or(Get(error, <<"message">>), error)
  IN [result |-> [content |-> Str(<<>>), pageStatusCode |-> null,
                  pageError |-> error_message],
      logParams |-> [lp EXCEPT !.error_message = error_message],
      debug |-> << <<who, IF timedOut THEN "Request timed out" ELSE "Failed to fetch url">> >>,
      terminal |-> IF timedOut THEN "Timeout" ELSE "TransportError"]

\* The finally block of either scraper.
Finally(lp, endTime) ==
  [lp EXCEPT !.time_taken_seconds = Divide(endTime - lp.startTime, 1000)]

(* scrapeWithFetch *)

FetchStatusError(lp, response) ==
  [result |-> [content |-> Str(<<>>), pageStatusCode |-> response.status,
               pageError |-> response.statusText],
   logParams |-> [lp EXCEPT !.error_message = response.statusText,
                            !.response_code = response.status],
   debug |-> << <<"Axios", "Failed to fetch url with status">> >>,
   terminal |-> "StatusError"]

\* The PDF branch, had it returned the body it rejects.
FetchBinaryRejectedKeepingBody(lp, response) ==
  [result |-> [content |-> response.data, pageStatusCode |-> response.status,
               pageError |-> Str(PDFMessage)],
   logParams |-> [lp EXCEPT !.error_message = Str(PDFMessage),
                            !.response_code = response.status],
   debug |-> << <<"fetch", "Detected PDF content">> >>,
   terminal |-> "BinaryRejected"]
\* The PDF branch of scrapeWithFetch.
FetchBinaryRejected(lp, response) ==
  [result |-> [content |-> Str(<<>>), pageStatusCode |-> response.status,
               pageError |-> Str(PDFMessage)],
   logParams |-> [lp EXCEPT !.error_message = Str(PDFMessage),
                            !.response_code = response.status],
   debug |-> << <<"fetch", "Detected PDF content">> >>,
   terminal |-> "BinaryRejected"]

FetchSuccess(lp, response) ==
  LET text == response.data
  IN [result |-> [content |-> text, pageStatusCode |-> response.status,
                  pageError |-> null],
      logParams |-> [lp EXCEPT !.success = TRUE, !.html = text,
                               !.response_code = response.status],
      debug |-> <<>>,
      terminal |-> "Success"]

\* The try block of scrapeWithFetch once axios.get has resolved.
fetchOnResponse(lp, response) ==
  IF response.status # Num(200) THEN FetchStatusError(lp, response)
  ELSE IF isPDFContent(response.data) THEN FetchBinaryRejected(lp, response)
  ELSE FetchSuccess(lp, response)

\* The catch block of scrapeWithFetch.
FetchCaught(lp, error) == Caught(lp, error, "Axios")

(* scrapeWithPlaywright *)

\* response.data is the text of the body, so its properties are undefined.
PlaywrightStatusError(lp, response) ==
  [result |-> [content |-> Str(<<>>),
               pageStatusCode |-> OptGet(response.data, <<"pageStatusCode">>),
               pageError |-> OptGet(response.data, <<"pageError">>)],
   logParams |-> [lp EXCEPT !.error_message = OptGet(response.data, <<"pageError">>),
                            !.response_code = OptGet(response.data, <<"pageStatusCode">>)],
   debug |-> << <<"Playwright", "Failed to fetch url">> >>,
   terminal |-> "StatusError"]

PlaywrightBinaryRejected(lp, data) ==
  [result |-> [content |-> Str(<<>>),
               pageStatusCode |-> Get(data, <<"pageStatusCode">>),
               pageError |-> Str(PDFMessage)],
   logParams |-> [lp EXCEPT !.error_message = Str(PDFMessage),
                            !.response_code = Get(data, <<"pageStatusCode">>)],
   debug |-> << <<"Playwright", "Detected PDF content">> >>,
   terminal |-> "BinaryRejected"]

\* The success branch, had it returned html without the ?? "".
PlaywrightSuccessWithoutDefault(lp, data, html) ==
  [result |-> [content |-> html,
               pageStatusCode |-> Get(data, <<"pageStatusCode">>),
               pageError |-> Get(data, <<"pageError">>)],
   logParams |-> [lp EXCEPT !.success = TRUE, !.html = html,
                            !.response_code = Get(data, <<"pageStatusCode">>),
                            !.error_message = Get(data, <<"pageError">>)],
   debug |-> <<>>,
   terminal |-> "Success"]
\* The success branch of scrapeWithPlaywright.
PlaywrightSuccess(lp, data, html) ==
  [result |-> [content |-> Coalesce(html, Str(<<>>)),
               pageStatusCode |-> Get(data, <<"pageStatusCode">>),
               pageError |-> Get(data, <<"pageError">>)],
   logParams |-> [lp EXCEPT !.success = TRUE, !.html = html,
                            !.response_code = Get(data, <<"pageStatusCode">>),
                            !.error_message = Get(data, <<"pageError">>)],
   debug |-> <<>>,
   terminal |-> "Success"]

\* The inner catch block: JSON.parse threw, or data was null.
PlaywrightParseError(lp, jsonError) ==
  LET error_message == Or(Get(jsonError, <<"message">>), jsonError)
  IN [result |-> [content |-> Str(<<>>), pageStatusCode |-> null,
                  pageError |-> error_message],
      logParams |-> [lp EXCEPT !.error_message = error_message],
      debug |-> << <<"Playwright", "Error parsing JSON response">> >>,
      terminal |-> "ParseError"]

\* The try block of scrapeWithPlaywright once axios.post has resolved.
playwrightOnResponse(lp, response) ==
  IF response.status # Num(200) THEN PlaywrightStatusError(lp, response)
  ELSE LET textData == response.data
           parsed == JSONparse(textData)
       IN IF ~parsed.ok THEN PlaywrightParseError(lp, parsed.error)
          ELSE IF Nullish(parsed.value)
            THEN PlaywrightParseError(lp, TypeError(<<"content">>))
          ELSE LET data == parsed.value
                   html == Get(data, <<"content">>)
               IN IF isPDFContent(html) THEN PlaywrightBinaryRejected(lp, data)
                  ELSE PlaywrightSuccess(lp, data, html)

\* The catch block of scrapeWithPlaywright.
PlaywrightCaught(lp, error) == Caught(lp, error, "Playwright")

---------------------------------------------------------------------------
(* The state machine of one call. *)

NoLogParams == NewLogParams("none", 0)
NoRequest ==
  [method |-> "none",
   data |-> [url |-> undefined, wait_after_load |-> undefined, headers |-> undefined],
   timeout |-> 0]
NoProvided == [settled |-> "none", value |-> undefined]
NoWire == [kind |-> "none", status |-> 0, statusText |-> <<>>, text |-> <<>>,
           isEnvelope |-> FALSE, fields |-> NoEnvelope, error |-> undefined]
NoResult == [content |-> undefined, pageStatusCode |-> undefined, pageError |-> undefined]

RECURSIVE LogAll(_, _, _)
LogAll(snk, env, messages) ==
  IF messages = <<>> THEN snk
  ELSE LogAll(Logger_debug(snk, env, Head(messages), undefined), env, Tail(messages))

\* The call returns what the exit path o produced, after its finally block.
Finish(o) ==
  /\ result' = o.result
  /\ terminal' = o.terminal
  /\ logParams' = Finally(o.logParams, now)
  /\ sink' = LogAll(sink, loggingLevel, o.debug)
  /\ pc' = "done"

ScrapeInit ==
  /\ loggingLevel \in LoggingLevels
  /\ pc = "idle"
  /\ logParams = NoLogParams
  /\ waitFor = 0
  /\ headers = undefined
  /\ provided = NoProvided
  /\ request = NoRequest
  /\ wire = NoWire
  /\ result = NoResult
  /\ terminal = "none"
  /\ sink = <<>>
  /\ ticks = 0
  /\ now = 0

PdfIdle ==
  /\ pdfChunks = <<>>
  /\ pdfContent = Str(<<>>)
  /\ pdfVerdict = FALSE
  /\ pdfDone = FALSE

Init == ScrapeInit /\ PdfIdle

\* The milliseconds the clock may advance by at once.
TickSteps == {1, 500, 1000}

\* Time passes while the call awaits the provider or the response.
Tick ==
  /\ pc \in {"awaitParams", "awaitResponse"}
  /\ ticks < MaxTicks
  /\ ticks' = ticks + 1
  /\ \E ms \in TickSteps : now' = now + ms
  /\ UNCHANGED <<loggingLevel, pc, logParams, waitFor, headers, provided,
                 request, wire, result, terminal, sink>>
  /\ UNCHANGED pdfVars

\* scrapeWithFetch(url), up to its await of axios.get.
CallFetch ==
  /\ pc = "idle"
  /\ logParams' = NewLogParams("fetch", now)
  /\ request' = GetRequest
  /\ pc' = "awaitResponse"
  /\ UNCHANGED <<loggingLevel, waitFor, headers, provided, wire, result,
                 terminal, sink, ticks, now>>
  /\ UNCHANGED pdfVars

\* scrapeWithPlaywright(url, waitFor, headers), up to its await of
\* generateRequestParams.
CallPlaywright ==
  /\ pc = "idle"
  /\ \E w \in WaitForValues, h \in HeaderValues :
       /\ waitFor' = w
       /\ headers' = h
  /\ logParams' = NewLogParams("playwright", now)
  /\ pc' = "awaitParams"
  /\ UNCHANGED <<loggingLevel, provided, request, wire, result, terminal,
                 sink, ticks, now>>
  /\ UNCHANGED pdfVars

\* generateRequestParams resolved: the POST is handed to axios.
ParamsResolved ==
  /\ pc = "awaitParams"
  /\ \E reqParams \in ProviderResults :
       /\ provided' = [settled |-> "resolved", value |-> reqParams]
       /\ request' = PostRequest(EffectiveWait(reqParams, Num(waitFor)), headers)
  /\ pc' = "awaitResponse"
  /\ UNCHANGED <<loggingLevel, logParams, waitFor, headers, wire, result,
                 terminal, sink, ticks, now>>
  /\ UNCHANGED pdfVars

\* generateRequestParams rejected: the catch block, then the finally block.
ParamsRejected ==
  /\ pc = "awaitParams"
  /\ \E error \in ProviderErrors :
       /\ provided' = [settled |-> "rejected", value |-> error]
       /\ Finish(PlaywrightCaught(logParams, error))
  /\ UNCHANGED <<loggingLevel, waitFor, headers, request, wire, ticks, now>>
  /\ UNCHANGED pdfVars

\* The origin answered the GET.
FetchAnswered ==
  /\ pc = "awaitResponse"
  /\ logParams.scraper = "fetch"
  /\ \E status \in Statuses, body \in OriginBodies :
       LET settled == AxiosSettle(status, ReasonPhrase(status), body)
       IN /\ wire' = [NoWire EXCEPT !.kind = "answer", !.status = status,
                                    !.statusText = ReasonPhrase(status),
                                    !.text = body]
          /\ Finish(IF settled.resolved
                    THEN fetchOnResponse(logParams, settled.response)
                    ELSE FetchCaught(logParams, settled.error))
  /\ UNCHANGED <<loggingLevel, waitFor, headers, provided, request, ticks, now>>
  /\ UNCHANGED pdfVars

\* The GET got no answer.
FetchFailed ==
  /\ pc = "awaitResponse"
  /\ logParams.scraper = "fetch"
  /\ \E error \in TransportErrors :
       /\ wire' = [NoWire EXCEPT !.kind = "failure", !.error = error]
       /\ Finish(FetchCaught(logParams, error))
  /\ UNCHANGED <<loggingLevel, waitFor, headers, provided, request, ticks, now>>
  /\ UNCHANGED pdfVars

\* The microservice answered the POST.
PlaywrightAnswered ==
  /\ pc = "awaitResponse"
  /\ logParams.scraper = "playwright"
  /\ \E status \in Statuses, body \in MicroserviceBodies :
       LET settled == AxiosSettle(status, ReasonPhrase(status), body.text)
       IN /\ wire' = [NoWire EXCEPT !.kind = "answer", !.status = status,
                                    !.statusText = ReasonPhrase(status),
                                    !.text = body.text,
                                    !.isEnvelope = body.isEnvelope,
                                    !.fields = body.fields]
          /\ Finish(IF settled.resolved
                    THEN playwrightOnResponse(logParams, settled.response)
                    ELSE PlaywrightCaught(logParams, settled.error))
  /\ UNCHANGED <<loggingLevel, waitFor, headers, provided, request, ticks, now>>
  /\ UNCHANGED pdfVars

\* The POST got no answer.
PlaywrightFailed ==
  /\ pc = "awaitResponse"
  /\ logParams.scraper = "playwright"
  /\ \E error \in TransportErrors :
       /\ wire' = [NoWire EXCEPT !.kind = "failure", !.error = error]
       /\ Finish(PlaywrightCaught(logParams, error))
  /\ UNCHANGED <<loggingLevel, waitFor, headers, provided, request, ticks, now>>
  /\ UNCHANGED pdfVars

Next ==
  \/ Tick
  \/ CallFetch
  \/ CallPlaywright
  \/ ParamsResolved
  \/ ParamsRejected
  \/ FetchAnswered
  \/ FetchFailed
  \/ PlaywrightAnswered
  \/ PlaywrightFailed

Spec == Init /\ [][Next]_vars

---------------------------------------------------------------------------
(* The classifier on its own. *)

\* What isPDFContent is called with: a string built from chunks, or a value
\* that is no string.
PdfInit ==
  /\ pdfChunks \in ChunkSeqs
  /\ pdfContent \in {Str(Flatten(pdfChunks))}
                    \cup (IF pdfChunks = <<>> THEN {undefined, null, Num(5)} ELSE {})
  /\ pdfVerdict = FALSE
  /\ pdfDone = FALSE

Classify ==
  /\ ~pdfDone
  /\ pdfVerdict' = isPDFContent(pdfContent)
  /\ pdfDone' = TRUE
  /\ UNCHANGED <<pdfChunks, pdfContent>>
  /\ UNCHANGED scrapeVars

InitPDF == ScrapeInit /\ loggingLevel = "unset" /\ PdfInit
NextPDF == Classify
SpecPDF == InitPDF /\ [][NextPDF]_vars

---------------------------------------------------------------------------
(* The logger on its own. *)

\* Metadata and child contexts a caller passes.
MetadataValues == {undefined, Obj(<<>>), Obj1(<<"content">>, Str(<<"x">>)),
                   Obj1(<<"error">>, Str(<<"ENOENT">>))}
ContextValues == {Obj1(<<"module">>, Str(<<"worker">>)),
                  Obj1(<<"content">>, Str(<<"y">>))}
\* Every kind of value LOGGING_LEVEL may hold.
AllLoggingLevels ==
  LoggingLevels \cup LogLevelKeys \cup {"verbose", "toString", "__proto__", "__defineGetter__"}
\* The levels a direct caller of Logger.log passes: the values of the enum.
DirectLevels == {LogLevel(key) : key \in LogLevelKeys}
LogMessages == {"All results processed.", "Error reading starturls.json"}

LoggerInit ==
  /\ loggingLevel \in AllLoggingLevels
  /\ pc = "idle"
  /\ logParams = NoLogParams
  /\ waitFor = 0
  /\ headers = undefined
  /\ provided = NoProvided
  /\ request = NoRequest
  /\ wire = NoWire
  /\ result = NoResult
  /\ terminal = "none"
  /\ sink = <<>>
  /\ ticks = 0
  /\ now = 0

\* A call of Logger.error, warn, info, debug or trace.
LoggerCall ==
  /\ ticks < MaxLogCalls
  /\ ticks' = ticks + 1
  /\ \E method \in LoggerMethods, message \in LogMessages, metadata \in MetadataValues :
       sink' = Logger_call(sink, loggingLevel, method, message, metadata)
  /\ UNCHANGED <<loggingLevel, pc, logParams, waitFor, headers, provided,
                 request, wire, result, terminal, now>>
  /\ UNCHANGED pdfVars

\* A direct call of Logger.log(message, level, metadata).
LoggerLogCall ==
  /\ ticks < MaxLogCalls
  /\ ticks' = ticks + 1
  /\ \E level \in DirectLevels, message \in LogMessages, metadata \in MetadataValues :
       sink' = Logger_log(sink, loggingLevel, message, level, metadata)
  /\ UNCHANGED <<loggingLevel, pc, logParams, waitFor, headers, provided,
                 request, wire, result, terminal, now>>
  /\ UNCHANGED pdfVars

\* A call of a method of Logger.child(context).
LoggerChildCall ==
  /\ ticks < MaxLogCalls
  /\ ticks' = ticks + 1
  /\ \E context \in ContextValues, method \in LoggerMethods,
        message \in LogMessages, metadata \in MetadataValues :
       sink' = Logger_child(sink, loggingLevel, context, method, message, metadata)
  /\ UNCHANGED <<loggingLevel, pc, logParams, waitFor, headers, provided,
                 request, wire, result, terminal, now>>
  /\ UNCHANGED pdfVars

InitLogger == LoggerInit /\ PdfIdle
NextLogger == LoggerLogCall \/ LoggerCall \/ LoggerChildCall
SpecLogger == InitLogger /\ [][NextLogger]_vars

---------------------------------------------------------------------------
(* The claims. *)

Done == pc = "done"
IsFetch == logParams.scraper = "fetch"
IsPlaywright == logParams.scraper = "playwright"
Empty == Str(<<>>)
\* A pageError that is present and says something.
HasError(r) == Present(r.pageError) /\ r.pageError # Empty

\* C1: a call that ends in any terminal state other than Success returns
\* content "".
ClaimC1 == (Done /\ terminal # "Success") => result.content = Empty

\* A direct fetch of a PDF body ended in BinaryRejected.
WitnessC1 ==
  /\ Done /\ IsFetch /\ terminal = "BinaryRejected"
  /\ wire.text = PdfBody
  /\ result.content = Empty

\* C2: when the origin answers the GET with a status other than 200, the call
\* returns content "", that status as pageStatusCode and its reason phrase as
\* pageError.
OriginalC2 ==
  (Done /\ IsFetch /\ wire.kind = "answer" /\ wire.status # 200) =>
    result = [content |-> Empty, pageStatusCode |-> Num(wire.status),
              pageError |-> Str(wire.statusText)]

\* C3: in every returned result a pageStatusCode that is present and not 200
\* comes with a present, non-empty pageError.
OriginalC3 ==
  (Done /\ Present(result.pageStatusCode) /\ result.pageStatusCode # Num(200))
    => HasError(result)

\* The provider supplied a wait value: its result has a numeric params.wait.
SuppliesWait(p) ==
  /\ p.settled = "resolved"
  /\ p.value.t = "object"
  /\ <<"params">> \in DOMAIN p.value.f
  /\ p.value.f[<<"params">>].t = "object"
  /\ <<"wait">> \in DOMAIN p.value.f[<<"params">>].f
  /\ p.value.f[<<"params">>].f[<<"wait">>].t = "number"

\* C4: when the provider fails or supplies no wait value, the POST is still
\* sent, with wait_after_load equal to the caller's waitFor.
OriginalC4 ==
  (Done /\ IsPlaywright /\ ~SuppliesWait(provided)) =>
    /\ request.method = "POST"
    /\ request.data.wait_after_load = Num(waitFor)

\* C5: when the outer status is not 200 and the body is an envelope carrying
\* pageStatusCode and pageError, the result has content "" and carries the
\* envelope's pageStatusCode and pageError.
OriginalC5 ==
  (/\ Done /\ IsPlaywright /\ wire.kind = "answer" /\ wire.status # 200
   /\ wire.isEnvelope
   /\ Present(wire.fields.pageStatusCode) /\ Present(wire.fields.pageError)) =>
    /\ result.content = Empty
    /\ result.pageStatusCode = wire.fields.pageStatusCode
    /\ result.pageError = wire.fields.pageError

\* C6: each of the five failure kinds (timeout, transport error, upstream
\* non-200 status, malformed envelope, binary content) returns a result with a
\* present pageError.
OriginalC6 ==
  (Done /\ terminal \in {"Timeout", "TransportError", "StatusError",
                          "ParseError", "BinaryRejected"}) => HasError(result)

\* C7 as stated: in the Success state of either backend pageError is absent
\* and content is the retrieved body (the response body, or the envelope's
\* content).
OriginalC7 ==
  (Done /\ terminal = "Success") =>
    /\ ~Present(result.pageError)
    /\ IsFetch => result.content = Str(wire.text)
    /\ (IsPlaywright /\ wire.fields.content.t = "string") =>
         result.content = wire.fields.content

\* C7, amended: in the Success state the direct backend returns a null
\* pageError and the response body as content; the browser backend returns the
\* envelope's content ("" when the envelope has none) and passes the
\* envelope's pageError through unchanged.
ClaimC7 ==
  (Done /\ terminal = "Success") =>
    /\ IsFetch => /\ result.pageError = null
                  /\ result.content = Str(wire.text)
    /\ IsPlaywright =>
         /\ result.content = (IF Nullish(wire.fields.content) THEN Empty
                              ELSE wire.fields.content)
         /\ result.pageError = wire.fields.pageError

\* The browser backend ended in Success with the page and the envelope's error.
WitnessC7 ==
  /\ Done /\ IsPlaywright /\ terminal = "Success"
  /\ result.content = Str(Html)
  /\ result.pageError = Str(<<"Not Found">>)

\* The marker chunks the classifier's input was built from.
MarkersPresent == {pdfChunks[i] : i \in DOMAIN pdfChunks} \cap MarkerChunks

\* C8: for content that neither the %PDF- rule nor the ratio rule matches,
\* isPDFContent returns true when all four markers are in it and false once any
\* one of the four is removed.
OriginalC8 ==
  (/\ pdfDone /\ pdfContent.t = "string"
   /\ ~SignatureRule(pdfContent) /\ ~RatioRule(pdfContent)) =>
    (pdfVerdict <=> MarkersPresent = MarkerChunks)

\* The entries of the sink that carry a log record rather than a bare message.
RecordsInSink == {i \in DOMAIN sink : sink[i].metadata # Obj(<<>>)}

\* C9: every call hands exactly one log record to the sink, after its elapsed
\* time has been computed.
OriginalC9 ==
  Done => /\ Cardinality(RecordsInSink) = 1
          /\ logParams.time_taken_seconds.t = "number"

\* C10: the effective wait is the provider's wait when it supplies one (0
\* included) and the caller's waitFor otherwise; it is the POST's
\* wait_after_load, and the timeout is universalTimeout plus it.
ClaimC10 ==
  request.method = "POST" =>
    LET effective == IF SuppliesWait(provided)
                     THEN provided.value.f[<<"params">>].f[<<"wait">>].n
                     ELSE waitFor
    IN /\ request.data.wait_after_load = Num(effective)
       /\ request.timeout = universalTimeout + effective

\* The provider's wait of 0 overrode the caller's 2000.
WitnessC10 ==
  /\ request.method = "POST"
  /\ waitFor = 2000
  /\ SuppliesWait(provided)
  /\ request.data.wait_after_load = Num(0)
  /\ request.timeout = universalTimeout

====
